---- MODULE Spec2Model ----
(***************************************************************************)
(* Model of delete-stall-git-repos (src/src/main.rs): scan the immediate   *)
(* children of a directory, classify every git working copy, offer the     *)
(* clean ones for deletion and delete the operator's selection.            *)
(***************************************************************************)
EXTENDS Integers, Sequences, FiniteSets, TLC

\* ---------------------------------------------------------------- bounds
NumEntries == 2      \* directory entries returned by read_dir
MaxCommits == 3      \* commits in one repository's object database

Entries == 1..NumEntries
Paths   == 1..NumEntries          \* canonical paths the entries resolve to
Commits == 1..MaxCommits

NotDir   == 0                     \* canon value of an entry that is no directory
NoTarget == 0                     \* a branch whose reference has no direct target

StatusEntries == {"WT_MODIFIED"}

\* -------------------------------------------------- the scanned file tree
\* Commit graphs: edges go from a commit to its parents, which are older
\* (lower-numbered) commits, so every graph is acyclic.
Dags == {f \in [Commits -> SUBSET Commits] : \A c \in Commits : f[c] \subseteq 1..(c - 1)}

NoParents == [c \in Commits |-> {}]

NotRepo == [isRepo |-> FALSE, statuses |-> {}, parents |-> NoParents,
            local |-> {}, remote |-> {}]

\* Every repository over MaxCommits commits; a branch is represented by its
\* target (a commit, or NoTarget).
GraphRepos == [isRepo : {TRUE}, statuses : SUBSET StatusEntries, parents : Dags,
               local : SUBSET (Commits \cup {NoTarget}),
               remote : SUBSET (Commits \cup {NoTarget})]

\* The repositories the whole-pipeline specification scans: one commit,
\* clean or dirty, with or without a local and a remote-tracking branch on it.
ScanRepos == [isRepo : {TRUE}, statuses : SUBSET StatusEntries, parents : {NoParents},
              local : {{}, {1}}, remote : {{}, {1}}]

VARIABLES canon, repoAt, disk, pc, idx, report, repositories, error,
          ans, picked, to_delete, di, processed, attempts

vars == <<canon, repoAt, disk, pc, idx, report, repositories, error,
          ans, picked, to_delete, di, processed, attempts>>

Range(s) == {s[i] : i \in DOMAIN s}

\* ------------------------------------------------------------ the revwalk
\* Ancestor closure of a set of commits, computed as a worklist marking.
RECURSIVE Mark(_, _, _)
Mark(parents, frontier, seen) ==
    IF frontier = {} THEN seen
    ELSE LET new == (UNION {parents[c] : c \in frontier}) \ seen
         IN  Mark(parents, new, seen \cup new)

\* git2 Revwalk: the commits reachable from the pushed ids, without the
\* hidden ids and everything reachable from them.
Revwalk(parents, pushed, hidden) ==
    LET uninteresting == Mark(parents, hidden, hidden)
        keep(S) == S \ uninteresting
        walkParents == [c \in Commits |-> keep(parents[c])]
    IN  Mark(walkParents, keep(pushed), keep(pushed))

\* main.rs 69-75: every local branch with a direct target is pushed.
PushedTips_none(r) == {}
PushedTips(r) == r.local \ {NoTarget}

\* main.rs 78-84: every remote-tracking branch with a direct target is hidden.
HiddenTips_none(r) == {}
HiddenTips(r) == r.remote \ {NoTarget}

\* main.rs 86-94: the flag is set as soon as the walk yields one commit.
is_unclean_negated(r) == Revwalk(r.parents, PushedTips(r), HiddenTips(r)) = {}
is_unclean(r) == Revwalk(r.parents, PushedTips(r), HiddenTips(r)) # {}

\* main.rs 38-39: Repository::open returned an error.
OpenFails_never(p, fail) == FALSE
OpenFails(p, fail) == ~repoAt[p].isRepo \/ fail = "open"

\* The fallible calls of one loop iteration, in program order.
EvalFailPoints == {"statuses", "revwalk", "branches_local", "branch_local", "push",
                   "branches_remote", "branch_remote", "hide", "walk", "find_commit"}
FailPoints == {"next_entry", "canonicalize", "open"} \cup EvalFailPoints

Outcome(res, chg, err) == [result |-> res, changes |-> chg, error |-> err]

\* main.rs 30-102: one iteration of the scan loop on entry e, where fail names
\* the call that returns an error in this iteration ("none": no call does).
\* A call that the iteration does not reach cannot fail.
Evaluate(e, fail) ==
    IF fail = "next_entry" THEN Outcome("Error", FALSE, fail)
    ELSE IF canon[e] = NotDir THEN Outcome("NotDir", FALSE, "none")
    ELSE IF fail = "canonicalize" THEN Outcome("Error", FALSE, fail)
    ELSE LET p   == canon[e]
             r   == repoAt[p]
             chg == r.statuses # {}
         IN  IF OpenFails(p, fail) THEN Outcome("NotARepository", FALSE, "none")
             ELSE IF fail = "statuses" THEN Outcome("Error", FALSE, fail)
             ELSE IF fail \in {"revwalk", "branches_local"} THEN Outcome("Error", chg, fail)
             ELSE IF fail = "branch_local" /\ r.local # {} THEN Outcome("Error", chg, fail)
             ELSE IF fail = "push" /\ PushedTips(r) # {} THEN Outcome("Error", chg, fail)
             ELSE IF fail = "branches_remote" THEN Outcome("Error", chg, fail)
             ELSE IF fail = "branch_remote" /\ r.remote # {} THEN Outcome("Error", chg, fail)
             ELSE IF fail = "hide" /\ HiddenTips(r) # {} THEN Outcome("Error", chg, fail)
             ELSE IF fail = "walk" THEN Outcome("Error", chg, fail)
             ELSE IF fail = "find_commit"
                     /\ Revwalk(r.parents, PushedTips(r), HiddenTips(r)) # {}
                  THEN Outcome("Error", chg, fail)
             ELSE IF is_unclean(r) THEN Outcome("HasUnpushedCommits", chg, "none")
             ELSE Outcome("Clean", chg, "none")

Pending == Outcome("pending", FALSE, "none")

\* ------------------------------------------------------------------ Init
InitRun ==
    /\ disk = Paths
    /\ pc = "start"
    /\ idx = 1
    /\ report = [e \in Entries |-> Pending]
    /\ repositories = <<>>
    /\ error = "none"
    /\ ans = "none"
    /\ picked = {}
    /\ to_delete = <<>>
    /\ di = 1
    /\ processed = <<>>
    /\ attempts = <<>>

\* Any directory of NumEntries entries; two entries may resolve to the same
\* canonical path (a directory and a symbolic link to it). A path that no
\* entry resolves to is never opened; it holds no repository.
Init ==
    /\ canon \in [Entries -> {NotDir} \cup Paths]
    /\ repoAt \in [Paths -> ScanRepos \cup {NotRepo}]
    /\ \A p \in Paths : (\A e \in Entries : canon[e] # p) => repoAt[p] = NotRepo
    /\ InitRun

\* One candidate directory holding any repository over MaxCommits commits.
InitGraph ==
    /\ canon = [e \in Entries |-> IF e = 1 THEN 1 ELSE NotDir]
    /\ \E r \in GraphRepos : repoAt = [p \in Paths |-> IF p = 1 THEN r ELSE NotRepo]
    /\ InitRun

\* --------------------------------------------------------------- actions
\* main.rs 27: read_dir; its failure ends the run.
ReadDir ==
    /\ pc = "start"
    /\ \E ok \in BOOLEAN :
          IF ok THEN pc' = "scan" /\ error' = error
                ELSE pc' = "exit_err" /\ error' = "read_dir"
    /\ UNCHANGED <<canon, repoAt, disk, idx, report, repositories,
                   ans, picked, to_delete, di, processed, attempts>>

\* main.rs 30-103: one iteration of the scan loop.
ScanEntry ==
    /\ pc = "scan"
    /\ idx <= NumEntries
    /\ \E fail \in FailPoints \cup {"none"} :
          LET o == Evaluate(idx, fail)
          IN  /\ report' = [report EXCEPT ![idx] = o]
              /\ IF o.result = "Error"
                    THEN /\ pc' = "exit_err"
                         /\ error' = o.error
                         /\ UNCHANGED <<idx, repositories>>
                    ELSE /\ pc' = "scan"
                         /\ error' = error
                         /\ idx' = idx + 1
                         /\ repositories' = IF o.result = "Clean"
                                               THEN Append(repositories, canon[idx])
                                               ELSE repositories
    /\ UNCHANGED <<canon, repoAt, disk, ans, picked, to_delete, di, processed, attempts>>

\* main.rs 30, 105-117: next_entry returns None (or fails); with no clean
\* repository the program exits, otherwise it lists them and prompts.
ScanEnd ==
    /\ pc = "scan"
    /\ idx > NumEntries
    /\ \E ok \in BOOLEAN :
          IF ~ok THEN pc' = "exit_err" /\ error' = "next_entry"
          ELSE /\ error' = error
               /\ pc' = IF repositories = <<>> THEN "exit_ok" ELSE "prompt"
    /\ UNCHANGED <<canon, repoAt, disk, idx, report, repositories,
                   ans, picked, to_delete, di, processed, attempts>>

Options == {"Delete all repositories", "Select repositories to delete", "Cancel"}

\* main.rs 126
Cancelled_never(a) == FALSE
Cancelled(a) == a = "Cancel"

RECURSIVE SelectIdx(_, _, _)
SelectIdx(seq, S, i) ==
    IF i > Len(seq) THEN <<>>
    ELSE (IF i \in S THEN <<seq[i]>> ELSE <<>>) \o SelectIdx(seq, S, i + 1)

\* main.rs 140-149: the whole clean list, or the operator's selection in order.
ToDelete_unselected(a, repos, sel) ==
    IF a = "Delete all repositories" THEN repos
    ELSE SelectIdx(repos, (1..Len(repos)) \ sel, 1)
ToDelete(a, repos, sel) ==
    IF a = "Delete all repositories" THEN repos ELSE SelectIdx(repos, sel, 1)

\* main.rs 119-161: the action prompt, the conversion of the paths to strings,
\* the multi-select and the empty-selection exit.
Prompt ==
    /\ pc = "prompt"
    /\ \E a \in Options, sel \in SUBSET (1..Len(repositories)),
          perr \in {"none", "select_prompt", "invalid_utf8", "multiselect_prompt"} :
          IF perr = "select_prompt"
             THEN pc' = "exit_err" /\ error' = perr
                  /\ UNCHANGED <<ans, picked, to_delete>>
          ELSE IF Cancelled(a)
             THEN pc' = "exit_ok" /\ ans' = a
                  /\ UNCHANGED <<error, picked, to_delete>>
          ELSE IF perr = "invalid_utf8"
             THEN pc' = "exit_err" /\ error' = perr /\ ans' = a
                  /\ UNCHANGED <<picked, to_delete>>
          ELSE IF a # "Delete all repositories" /\ perr = "multiselect_prompt"
             THEN pc' = "exit_err" /\ error' = perr /\ ans' = a
                  /\ UNCHANGED <<picked, to_delete>>
          ELSE /\ ans' = a
               /\ error' = error
               /\ picked' = IF a = "Delete all repositories" THEN {} ELSE sel
               /\ to_delete' = ToDelete(a, repositories, picked')
               /\ pc' = IF to_delete' = <<>> THEN "exit_ok" ELSE "delete"
    /\ UNCHANGED <<canon, repoAt, disk, idx, report, repositories,
                   di, processed, attempts>>

\* main.rs 167-174: a failed removal continues with the next path.
NextDeleteIndex_break(i, ok) == IF ok THEN i + 1 ELSE Len(to_delete) + 1
NextDeleteIndex(i, ok) == i + 1

\* main.rs 162-177: one iteration of the deletion loop. extGone: the path was
\* removed by someone else since the scan; ok: remove_dir_all succeeded.
DeleteStep ==
    /\ pc = "delete"
    /\ di <= Len(to_delete)
    /\ \E extGone \in BOOLEAN, ok \in BOOLEAN :
          LET ele     == to_delete[di]
              diskNow == IF extGone THEN disk \ {ele} ELSE disk
              exists  == ele \in diskNow
              next    == IF exists THEN NextDeleteIndex(di, ok) ELSE di + 1
          IN  /\ processed' = Append(processed, [path |-> ele, existed |-> exists])
              /\ attempts' = IF exists
                                THEN Append(attempts, [pos |-> di, path |-> ele, ok |-> ok])
                                ELSE attempts
              /\ disk' = IF exists /\ ok THEN diskNow \ {ele} ELSE diskNow
              /\ di' = next
              /\ pc' = IF next > Len(to_delete) THEN "exit_ok" ELSE "delete"
    /\ UNCHANGED <<canon, repoAt, idx, report, repositories, error,
                   ans, picked, to_delete>>

Next == ReadDir \/ ScanEntry \/ ScanEnd \/ Prompt \/ DeleteStep

Spec == Init /\ [][Next]_vars

SpecGraph == InitGraph /\ [][Next]_vars

\* ------------------------------------------------ vocabulary of the claims
Scanned(e) == report[e].result # "pending"

IsDir(e) == canon[e] # NotDir

RepoOf(e) == repoAt[canon[e]]

\* The iteration on entry e ran to a verdict on an opened repository.
HasVerdict(e) == report[e].result \in {"HasUnpushedCommits", "Clean"}

\* a is c or an ancestor of c.
RECURSIVE IsAncestorOrSelf(_, _, _)
IsAncestorOrSelf(parents, a, c) ==
    a = c \/ \E q \in parents[c] : IsAncestorOrSelf(parents, a, q)

ReachableFrom(parents, tips) ==
    {a \in Commits : \E t \in tips : IsAncestorOrSelf(parents, a, t)}

LocalCommits(r) == ReachableFrom(r.parents, r.local \ {NoTarget})

RemoteCommits(r) == ReachableFrom(r.parents, r.remote \ {NoTarget})

ScanFinished == idx > NumEntries /\ \A e \in Entries : Scanned(e)

\* The operator's final selection, read off the answers given at the prompts.
FinalSelection ==
    IF ans = "Delete all repositories" THEN Range(repositories)
    ELSE IF ans = "Select repositories to delete" THEN {repositories[i] : i \in picked}
    ELSE {}

AttemptsAt(k) == {j \in DOMAIN attempts : attempts[j].pos = k}

\* ----------------------------------------------------------------- claims
\* C1: a scanned working copy whose working-tree status set is non-empty is
\* never classified clean and its path is never in the clean set offered for
\* deletion, whatever its commit graph.
C1_DirtyNeverOffered ==
    \A e \in Entries :
        (Scanned(e) /\ IsDir(e) /\ RepoOf(e).isRepo /\ RepoOf(e).statuses # {})
            => /\ report[e].result # "Clean"
               /\ canon[e] \notin Range(repositories)

\* C2: a working copy with an empty status set whose evaluation ran to a
\* verdict is excluded as HasUnpushedCommits exactly when some commit in the
\* ancestor closure of the local branch tips is not in the ancestor closure of
\* the remote-tracking branch tips; otherwise it is in the clean set.
C2_UnpushedIffSetDifference ==
    \A e \in Entries :
        (HasVerdict(e) /\ RepoOf(e).statuses = {})
            => /\ report[e].result = "HasUnpushedCommits"
                    <=> LocalCommits(RepoOf(e)) \ RemoteCommits(RepoOf(e)) # {}
               /\ report[e].result = "Clean" <=> canon[e] \in Range(repositories)

\* An unpushed merge commit above a pushed parent is found.
C2_Witness ==
    \E e \in Entries :
        /\ report[e].result = "HasUnpushedCommits"
        /\ RepoOf(e).statuses = {}
        /\ RemoteCommits(RepoOf(e)) # {}
        /\ \E c \in LocalCommits(RepoOf(e)) \ RemoteCommits(RepoOf(e)) :
              /\ Cardinality(RepoOf(e).parents[c]) >= 2
              /\ RepoOf(e).parents[c] \cap RemoteCommits(RepoOf(e)) # {}

\* C3: a failure raised while evaluating one candidate never ends the run:
\* the scan goes on with the next candidate.
C3_FailureIsCaught ==
    \A e \in Entries :
        (report[e].result = "Error" /\ report[e].error \in EvalFailPoints)
            => pc # "exit_err"

\* C4: after "Cancel" at the action prompt, or an empty subset submitted in
\* the multi-select, the program has exited normally and no removal was
\* attempted on any path.
C4_CancelDeletesNothing ==
    (error = "none"
       /\ (ans = "Cancel" \/ (ans = "Select repositories to delete" /\ picked = {})))
        => /\ pc = "exit_ok"
           /\ attempts = <<>>
           /\ processed = <<>>
           /\ disk = Paths

C4_Witness ==
    /\ ans = "Cancel"
    /\ pc = "exit_ok"
    /\ Len(repositories) >= 2

\* C5: the deletion loop processes every path of the final selection in
\* order, a failed removal or a vanished path notwithstanding; each path that
\* exists when its turn comes gets exactly one removal attempt, the others
\* none, and the program then exits normally.
C5_BatchRunsToTheEnd ==
    /\ Len(processed) <= Len(to_delete)
    /\ \A k \in DOMAIN processed :
          /\ processed[k].path = to_delete[k]
          /\ Cardinality(AttemptsAt(k)) = IF processed[k].existed THEN 1 ELSE 0
    /\ \A j \in DOMAIN attempts :
          /\ attempts[j].pos \in DOMAIN processed
          /\ attempts[j].path = to_delete[attempts[j].pos]
          /\ \A i \in 1..(j - 1) : attempts[i].pos < attempts[j].pos
    /\ pc = "delete" => Len(processed) < Len(to_delete)
    /\ (pc = "exit_ok" /\ to_delete # <<>>) => Len(processed) = Len(to_delete)
    /\ to_delete # <<>> => pc \in {"delete", "exit_ok"}

\* The first removal failed, the second path was gone, and the run ended.
C5_Witness ==
    /\ pc = "exit_ok"
    /\ Len(processed) = 2
    /\ Len(attempts) = 1
    /\ ~attempts[1].ok
    /\ attempts[1].pos = 1
    /\ ~processed[2].existed

\* C6: a working copy with no remote-tracking branch and at least one local
\* commit, whose evaluation ran to a verdict, is HasUnpushedCommits, and its
\* path is not in the clean set.
C6_NoRemoteIsUnpushed ==
    \A e \in Entries :
        (Scanned(e) /\ IsDir(e) /\ RepoOf(e).isRepo
           /\ RepoOf(e).remote = {} /\ LocalCommits(RepoOf(e)) # {})
            => /\ HasVerdict(e) => report[e].result = "HasUnpushedCommits"
               /\ canon[e] \notin Range(repositories)

C6_Witness ==
    \E e \in Entries :
        /\ report[e].result = "HasUnpushedCommits"
        /\ RepoOf(e).remote = {}
        /\ Cardinality(LocalCommits(RepoOf(e))) >= 2

\* C7: a working copy in which no local branch has a tip to push is never
\* HasUnpushedCommits, whatever commits and remote-tracking branches it has;
\* when its evaluation runs to a verdict it is in the clean set.
C7_NoLocalBranchPasses ==
    \A e \in Entries :
        (Scanned(e) /\ IsDir(e) /\ RepoOf(e).isRepo /\ RepoOf(e).local \subseteq {NoTarget})
            => /\ report[e].result # "HasUnpushedCommits"
               /\ HasVerdict(e) => canon[e] \in Range(repositories)

C7_Witness ==
    \E e \in Entries :
        /\ report[e].result = "Clean"
        /\ RepoOf(e).local = {}
        /\ RemoteCommits(RepoOf(e)) # {}

\* C8: a child directory that is no working copy, once the scan has reached
\* its open, is skipped: noticed as not a repository, never in the clean set,
\* never reported unclean, and the run does not end on it.
C8_NotARepositoryIsSkipped ==
    \A e \in Entries :
        (Scanned(e) /\ IsDir(e) /\ ~RepoOf(e).isRepo /\ report[e].error = "none")
            => /\ report[e].result = "NotARepository"
               /\ ~report[e].changes
               /\ canon[e] \notin Range(repositories)
               /\ idx > e

\* A directory that is no repository is skipped and a later one is found clean.
C8_Witness ==
    \E e \in Entries, f \in Entries :
        /\ e < f
        /\ IsDir(e) /\ ~RepoOf(e).isRepo
        /\ report[e].result = "NotARepository"
        /\ report[f].result = "Clean"

\* C10: every path on which a removal is attempted is in the clean set of
\* this run's scan and in the operator's final selection, and no removal is
\* attempted before the scan is over and the action prompt is answered.
C10_OnlySelectedCleanPathsRemoved ==
    /\ \A j \in DOMAIN attempts :
          /\ attempts[j].path \in Range(repositories)
          /\ attempts[j].path \in FinalSelection
    /\ (attempts # <<>> \/ disk # Paths)
          => /\ ScanFinished
             /\ ans \in {"Delete all repositories", "Select repositories to delete"}
    /\ Paths \ disk \subseteq FinalSelection

\* The operator selected one of two clean paths and it was removed.
C10_Witness ==
    /\ ans = "Select repositories to delete"
    /\ Len(repositories) = 2
    /\ repositories[1] # repositories[2]
    /\ Cardinality(picked) = 1
    /\ attempts # <<>>
    /\ attempts[1].ok

====
